---- MODULE Spec2Model ----
(***************************************************************************)
(* A model of matrix-go: the dense and the hash (sparse) matrix, their     *)
(* transposed views and sub-views over shared storage, and the operators   *)
(* built on them.  float64 elements are modelled by integers.  A panic is  *)
(* modelled as the outcome of a call: the name of the panic, or "ok".      *)
(***************************************************************************)
EXTENDS Integers, Sequences, FiniteSets, TLC

VARIABLES
    stores,     \* the element storages (a []float64 or a map[int]float64), by identity
    handles,    \* the matrix values (*denseMatrix, *hash.Matrix) created so far
    origin,     \* for each matrix value, the call that created it (history)
    last,       \* the last call: operation, receiver, operand, arguments, outcome
    steps       \* the number of calls that changed a storage

vars == <<stores, handles, origin, last, steps>>

(***************************************************************************)
(* Bounds of the model.                                                    *)
(***************************************************************************)
MaxDim == 2         \* rows and columns of a constructed matrix are in 1..MaxDim
MaxVal == 1         \* element values given by a caller are in 0..MaxVal
MaxFill == 1        \* non-zero elements (hash: elements) given to a constructor
MaxSteps == 1       \* calls that change a storage, per behaviour
MaxHandles == 3     \* matrix values per behaviour

Dims == 1..MaxDim
Vals == 0..MaxVal
Indices == (-1)..MaxDim         \* row and column arguments, in and out of range
Positions == 0..(MaxDim - 1)    \* row and column arguments of View
Sizes == 0..MaxDim              \* rows and columns arguments of View
Kinds == {"dense", "hash"}

(***************************************************************************)
(* Panics of the validates package.                                        *)
(***************************************************************************)
OK == "ok"
NON_POSITIVE_SIZE_PANIC == "NON_POSITIVE_SIZE_PANIC"
DIFFERENT_SIZE_PANIC == "DIFFERENT_SIZE_PANIC"
NOT_MULTIPLIABLE_PANIC == "NOT_MULTIPLIABLE_PANIC"
OUT_OF_RANGE_PANIC == "OUT_OF_RANGE_PANIC"
INVALID_ELEMENTS_PANIC == "INVALID_ELEMENTS_PANIC"
VIEW_OUT_OF_BASE_PANIC == "VIEW_OUT_OF_BASE_PANIC"

\* The first check that fails decides the panic of a call.
FirstPanic(checks) ==
    IF \E i \in 1..Len(checks) : checks[i] # OK
    THEN checks[CHOOSE i \in 1..Len(checks) :
                    /\ checks[i] # OK
                    /\ \A j \in 1..(i - 1) : checks[j] = OK]
    ELSE OK

(***************************************************************************)
(* internal/validates.                                                     *)
(***************************************************************************)
ShapeShouldBePositive(rows, columns) ==
    IF rows > 0 /\ columns > 0 THEN OK ELSE NON_POSITIVE_SIZE_PANIC

ShapeShouldBeSame(mShape, nShape) ==
    IF mShape[1] = nShape[1] /\ mShape[2] = nShape[2] THEN OK ELSE DIFFERENT_SIZE_PANIC

ShapeShouldBeMultipliable(mShape, nShape) ==
    IF mShape[2] = nShape[1] THEN OK ELSE NOT_MULTIPLIABLE_PANIC

IndexShouldBeInRange(rows, columns, row, column) ==
    IF 0 <= row /\ row < rows /\ 0 <= column /\ column < columns
    THEN OK ELSE OUT_OF_RANGE_PANIC

ViewShouldBeInBase(base, view, offset) ==
    IF offset[1] + view[1] <= base[1] /\ offset[2] + view[2] <= base[2]
    THEN OK ELSE VIEW_OUT_OF_BASE_PANIC

(***************************************************************************)
(* internal/rewriters: the identity ("reflect") and the transposing        *)
(* rewriter.                                                               *)
(***************************************************************************)
REFLECT == "reflect"
REVERSE == "reverse"

Reflect == REFLECT

Rewrite(rewriter, row, column) ==
    IF rewriter = REVERSE THEN <<column, row>> ELSE <<row, column>>

RewriterTranspose(rewriter) ==
    IF rewriter = REFLECT THEN REVERSE ELSE REFLECT

(***************************************************************************)
(* Constructors.  A storage is a function from int to float64: for the     *)
(* dense matrix the slice, with domain 0..rows*columns-1; for the hash     *)
(* matrix the map, whose domain is its key set.                            *)
(***************************************************************************)
DENSE == "dense"
HASH == "hash"

\* dense.New(rows, columns)(elements...): the matrix value.
DenseNew(st, rows, columns) ==
    [kind |-> DENSE, st |-> st, base |-> <<rows, columns>>, view |-> <<rows, columns>>,
     offset |-> <<0, 0>>, rows |-> rows, columns |-> columns, rewriter |-> Reflect]

\* dense.New(rows, columns)(elements...): the slice, a copy of elements.
DenseElements(rows, columns, elements) ==
    [i \in 0..(rows * columns - 1) |-> elements[i + 1]]

\* dense.Zeros
DenseZeros(rows, columns) ==
    DenseElements(rows, columns, [i \in 1..(rows * columns) |-> 0])

\* hash.New(rows, columns)(elements...): the matrix value.
HashNew(st, rows, columns) ==
    [kind |-> HASH, st |-> st, initialized |-> TRUE, base |-> <<rows, columns>>,
     view |-> <<rows, columns>>, offset |-> <<0, 0>>, rewriter |-> Reflect]

\* hash.Zeros: the empty map.
HashZeros == [k \in {} |-> 0]

(***************************************************************************)
(* Shape, Rows, Columns.                                                   *)
(***************************************************************************)
Shape(m) ==
    IF m.kind = DENSE
    THEN Rewrite(m.rewriter, m.rows, m.columns)
    ELSE Rewrite(m.rewriter, m.view[1], m.view[2])

Rows(m) == Shape(m)[1]

Columns(m) == Shape(m)[2]

(***************************************************************************)
(* Get and Update.  Each returns the panic of the call or OK; Get the      *)
(* element read, Update the storage written.                               *)
(***************************************************************************)
DenseIndex(m, row, column) ==
    Rewrite(m.rewriter, row, column)[1] * m.columns + Rewrite(m.rewriter, row, column)[2]

HashIndex(m, row, column) ==
    (Rewrite(m.rewriter, row, column)[1] + m.offset[1]) * m.base[2]
        + Rewrite(m.rewriter, row, column)[2] + m.offset[2]

DenseGet(m, elements, row, column) ==
    LET check == IndexShouldBeInRange(Rows(m), Columns(m), row, column)
    IN  [panic |-> check,
         element |-> IF check = OK THEN elements[DenseIndex(m, row, column)] ELSE 0]

\* Mutant of HashGet: the index is validated against the base shape.
HashGetChecksBase(m, elements, row, column) ==
    LET rw == Rewrite(m.rewriter, row, column)
        check == IndexShouldBeInRange(m.base[1], m.base[2], rw[1], rw[2])
        index == HashIndex(m, row, column)
    IN  [panic |-> check,
         element |-> IF check = OK /\ index \in DOMAIN elements
                     THEN elements[index] ELSE 0]

HashGet(m, elements, row, column) ==
    LET rw == Rewrite(m.rewriter, row, column)
        check == IndexShouldBeInRange(m.view[1], m.view[2], rw[1], rw[2])
        index == HashIndex(m, row, column)
    IN  [panic |-> check,
         element |-> IF check = OK /\ index \in DOMAIN elements
                     THEN elements[index] ELSE 0]

Get(m, elements, row, column) ==
    IF m.kind = DENSE
    THEN DenseGet(m, elements, row, column)
    ELSE HashGet(m, elements, row, column)

\* delete(m.elements, index)
MapDelete(elements, index) ==
    [k \in DOMAIN elements \ {index} |-> elements[k]]

\* m.elements[index] = element
MapStore(elements, index, element) ==
    [k \in DOMAIN elements \cup {index} |-> IF k = index THEN element ELSE elements[k]]

DenseUpdate(m, elements, row, column, element) ==
    LET check == IndexShouldBeInRange(Rows(m), Columns(m), row, column)
    IN  [panic |-> check,
         elements |-> IF check = OK
                      THEN [elements EXCEPT ![DenseIndex(m, row, column)] = element]
                      ELSE elements]

\* Mutant of HashUpdate: a zero element is not deleted from the map.
HashUpdateKeepsZeroed(m, elements, row, column, element) ==
    LET rw == Rewrite(m.rewriter, row, column)
        check == IndexShouldBeInRange(m.view[1], m.view[2], rw[1], rw[2])
        index == HashIndex(m, row, column)
    IN  [panic |-> check,
         elements |-> IF check # OK \/ element = 0 THEN elements
                      ELSE MapStore(elements, index, element)]

HashUpdate(m, elements, row, column, element) ==
    LET rw == Rewrite(m.rewriter, row, column)
        check == IndexShouldBeInRange(m.view[1], m.view[2], rw[1], rw[2])
        index == HashIndex(m, row, column)
    IN  [panic |-> check,
         elements |-> IF check # OK THEN elements
                      ELSE IF element = 0 THEN MapDelete(elements, index)
                      ELSE MapStore(elements, index, element)]

Update(m, elements, row, column, element) ==
    IF m.kind = DENSE
    THEN DenseUpdate(m, elements, row, column, element)
    ELSE HashUpdate(m, elements, row, column, element)

(***************************************************************************)
(* Transpose, View.                                                        *)
(***************************************************************************)
\* Mutant of Transpose: the rewriter is kept.
TransposeKeepsRewriter(m) == m

\* Mutant of Transpose: the rewriter is always the transposing one.
TransposeAlwaysReverse(m) == [m EXCEPT !.rewriter = REVERSE]

\* Mutant of Transpose: the rewriter is always the identity.
TransposeResetsRewriter(m) == [m EXCEPT !.rewriter = REFLECT]

Transpose(m) ==
    [m EXCEPT !.rewriter = RewriterTranspose(m.rewriter)]

\* Mutant of HashView: the receiver's offset is not added.
HashViewDropsOffset(m, row, column, rows, columns) ==
    LET rc == Rewrite(m.rewriter, row, column)
        sz == Rewrite(m.rewriter, rows, columns)
        offset == <<rc[1], rc[2]>>
        view == <<sz[1], sz[2]>>
        check == FirstPanic(<<ShapeShouldBePositive(sz[1], sz[2]),
                              ViewShouldBeInBase(m.base, view, offset)>>)
    IN  [panic |-> check,
         matrix |-> [m EXCEPT !.view = view, !.offset = offset]]

\* hash.Matrix.View: the panic of the call or OK, and the view created.
HashView(m, row, column, rows, columns) ==
    LET rc == Rewrite(m.rewriter, row, column)
        sz == Rewrite(m.rewriter, rows, columns)
        offset == <<m.offset[1] + rc[1], m.offset[2] + rc[2]>>
        view == <<sz[1], sz[2]>>
        check == FirstPanic(<<ShapeShouldBePositive(sz[1], sz[2]),
                              ViewShouldBeInBase(m.base, view, offset)>>)
    IN  [panic |-> check,
         matrix |-> [m EXCEPT !.view = view, !.offset = offset]]

(***************************************************************************)
(* Cursors.  A cursor walks the cells of its matrix in the logical frame   *)
(* and reads the storage when it reaches a cell.  AllCells is the order of *)
(* the All cursor and of the dense NonZeros cursor; the hash NonZeros      *)
(* cursor walks the keys of the map in an order of the map's choosing.     *)
(***************************************************************************)
AllCells(m) ==
    [i \in 1..(Rows(m) * Columns(m)) |->
        <<(i - 1) \div Columns(m), (i - 1) % Columns(m)>>]

CellSet(m) == (0..(Rows(m) - 1)) \X (0..(Columns(m) - 1))

\* The cells the NonZeros cursor of m may still yield, given the storage.
NonZeroCells(m, elements) ==
    IF m.kind = DENSE
    THEN {cell \in CellSet(m) : Get(m, elements, cell[1], cell[2]).element # 0}
    ELSE {cell \in CellSet(m) : HashIndex(m, cell[1], cell[2]) \in DOMAIN elements}

Orders(cells) ==
    {order \in [1..Cardinality(cells) -> cells] :
        \A i, j \in 1..Cardinality(cells) : i # j => order[i] # order[j]}

\* The visiting orders the NonZeros cursor of m can take.
NonZerosOrders(m, elements) ==
    IF m.kind = DENSE THEN {AllCells(m)} ELSE Orders(NonZeroCells(m, elements))

(***************************************************************************)
(* Equal, Add, Subtract, Multiply.  The loops run over the storages S, so  *)
(* that an operand sharing the receiver's storage sees the receiver's      *)
(* writes.                                                                 *)
(***************************************************************************)
Equal(m, n, S) ==
    LET check == ShapeShouldBeSame(Shape(m), Shape(n))
    IN  [panic |-> check,
         equal |-> /\ check = OK
                   /\ \A i \in 1..Len(AllCells(n)) :
                        LET cell == AllCells(n)[i]
                        IN  Get(m, S[m.st], cell[1], cell[2]).element
                                = Get(n, S[n.st], cell[1], cell[2]).element]

RECURSIVE AccumulateLoop(_, _, _, _, _, _)
AccumulateLoop(m, n, S, order, i, sign) ==
    IF i > Len(order) THEN S
    ELSE LET cell == order[i]
         IN  IF cell \notin NonZeroCells(n, S[n.st])
             THEN AccumulateLoop(m, n, S, order, i + 1, sign)
             ELSE LET element == Get(n, S[n.st], cell[1], cell[2]).element
                      sum == Get(m, S[m.st], cell[1], cell[2]).element + sign * element
                      written == Update(m, S[m.st], cell[1], cell[2], sum).elements
                  IN  AccumulateLoop(m, n, [S EXCEPT ![m.st] = written],
                                     order, i + 1, sign)

\* Mutant of Add: the shapes are not compared.
AddUnchecked(m, n, S, order) ==
    [panic |-> OK, stores |-> AccumulateLoop(m, n, S, order, 1, 1)]

\* Mutant of Add: the operand is added twice.
AddTwice(m, n, S, order) ==
    LET check == ShapeShouldBeSame(Shape(m), Shape(n))
    IN  [panic |-> check,
         stores |-> IF check = OK THEN AccumulateLoop(m, n, S, order, 1, 2) ELSE S]

Add(m, n, S, order) ==
    LET check == ShapeShouldBeSame(Shape(m), Shape(n))
    IN  [panic |-> check,
         stores |-> IF check = OK THEN AccumulateLoop(m, n, S, order, 1, 1) ELSE S]

Subtract(m, n, S, order) ==
    LET check == ShapeShouldBeSame(Shape(m), Shape(n))
    IN  [panic |-> check,
         stores |-> IF check = OK THEN AccumulateLoop(m, n, S, order, 1, -1) ELSE S]

\* Zeros(rows, columns) of the receiver's package: the matrix and its storage.
ZerosLike(m, rows, columns) ==
    IF m.kind = DENSE
    THEN [matrix |-> DenseNew(0, rows, columns), elements |-> DenseZeros(rows, columns)]
    ELSE [matrix |-> HashNew(0, rows, columns), elements |-> HashZeros]

\* Mutant of MultiplyRows: the product replaces the element of the result.
RECURSIVE MultiplyRowsOverwrites(_, _, _, _, _, _, _, _)
MultiplyRowsOverwrites(m, mElements, r, rElements, element, j, k, i) ==
    IF i >= Rows(m) THEN rElements
    ELSE MultiplyRowsOverwrites(m, mElements, r,
            Update(r, rElements, i, k, Get(m, mElements, i, j).element * element).elements,
            element, j, k, i + 1)

RECURSIVE MultiplyRows(_, _, _, _, _, _, _, _)
MultiplyRows(m, mElements, r, rElements, element, j, k, i) ==
    IF i >= Rows(m) THEN rElements
    ELSE MultiplyRows(m, mElements, r,
            Update(r, rElements, i, k,
                   Get(r, rElements, i, k).element
                       + Get(m, mElements, i, j).element * element).elements,
            element, j, k, i + 1)

RECURSIVE MultiplyLoop(_, _, _, _, _, _, _)
MultiplyLoop(m, n, S, r, rElements, order, c) ==
    IF c > Len(order) THEN rElements
    ELSE LET cell == order[c]
         IN  IF cell \notin NonZeroCells(n, S[n.st])
             THEN MultiplyLoop(m, n, S, r, rElements, order, c + 1)
             ELSE MultiplyLoop(m, n, S, r,
                    MultiplyRows(m, S[m.st], r, rElements,
                                 Get(n, S[n.st], cell[1], cell[2]).element,
                                 cell[1], cell[2], 0),
                    order, c + 1)

\* Mutant of Multiply: the rows of the two matrices are compared.
MultiplyComparesRows(m, n, S, order) ==
    LET check == IF Rows(m) = Rows(n) THEN OK ELSE NOT_MULTIPLIABLE_PANIC
        r == ZerosLike(m, Rows(m), Columns(n))
    IN  IF check # OK
        THEN [panic |-> check, matrix |-> <<>>, elements |-> <<>>]
        ELSE [panic |-> OK, matrix |-> r.matrix,
              elements |-> MultiplyLoop(m, n, S, r.matrix, r.elements, order, 1)]

Multiply(m, n, S, order) ==
    LET check == ShapeShouldBeMultipliable(Shape(m), Shape(n))
        r == ZerosLike(m, Rows(m), Columns(n))
    IN  IF check # OK
        THEN [panic |-> check, matrix |-> <<>>, elements |-> <<>>]
        ELSE [panic |-> OK, matrix |-> r.matrix,
              elements |-> MultiplyLoop(m, n, S, r.matrix, r.elements, order, 1)]

(***************************************************************************)
(* The state machine.  A behaviour constructs one matrix, derives views of *)
(* it and calls Get and Update through any of them.                        *)
(***************************************************************************)
NoCall == [op |-> "none", recv |-> 0, arg |-> 0, args |-> <<>>, panic |-> OK, out |-> 0]

Call(op, recv, arg, args, panic, out) ==
    [op |-> op, recv |-> recv, arg |-> arg, args |-> args, panic |-> panic, out |-> out]

Created(op, from, args) == [op |-> op, from |-> from, args |-> args]

\* The element lists a caller gives to dense.New: at most MaxFill non-zero elements.
DenseFills(rows, columns) ==
    {elements \in [1..(rows * columns) -> Vals] :
        Cardinality({i \in 1..(rows * columns) : elements[i] # 0}) <= MaxFill}

\* The maps hash.New builds from element lists of at most MaxFill elements with
\* distinct in-range indices: the value of an element is stored as given.
HashFills(rows, columns) ==
    UNION {[keys -> Vals] : keys \in {ks \in SUBSET (0..(rows * columns - 1)) :
                                          Cardinality(ks) <= MaxFill}}

\* The root matrix and its storage, for every constructor call of the bounds.
Roots(st) ==
    UNION {
        {[matrix |-> DenseNew(st, rows, columns),
          elements |-> DenseElements(rows, columns, elements)] :
            elements \in DenseFills(rows, columns)}
        \cup
        {[matrix |-> HashNew(st, rows, columns), elements |-> elements] :
            elements \in HashFills(rows, columns)}
        : <<rows, columns>> \in Dims \X Dims}

Init ==
    \E root \in Roots(1) :
        /\ stores = <<root.elements>>
        /\ handles = <<root.matrix>>
        /\ origin = <<Created("New", 0, <<>>)>>
        /\ last = NoCall
        /\ steps = 0

Handles == 1..Len(handles)

\* The calls that only read: Get, Equal, Multiply, the walk of a cursor, a
\* serialization followed by its decoding, Max, Min and IsDiagonal.
Readers ==
    {"Get", "Equal", "Multiply", "All", "NonZeros", "Diagonal", "Serialize", "Max", "Min",
     "IsDiagonal"}

\* A panic ends the program.  A call that only reads is explored as the last
\* call of a behaviour: the calls after it would see the storages and matrices
\* they see without it.
Running ==
    /\ last.panic = OK
    /\ last.op \notin Readers
    /\ steps <= MaxSteps

\* Transpose and View read and write no storage, so they commute with the calls
\* that do: a behaviour is explored with its matrix values created first.
Deriving == Running /\ steps = 0

DoTranspose(h) ==
    /\ Deriving
    /\ Len(handles) < MaxHandles
    /\ handles' = Append(handles, Transpose(handles[h]))
    /\ origin' = Append(origin, Created("Transpose", h, Shape(handles[h])))
    /\ last' = Call("Transpose", h, 0, <<>>, OK, Len(handles) + 1)
    /\ UNCHANGED <<stores, steps>>

DoView(h, row, column, rows, columns) ==
    LET call == HashView(handles[h], row, column, rows, columns)
    IN  /\ Deriving
        /\ handles[h].kind = HASH
        /\ Len(handles) < MaxHandles
        /\ IF call.panic = OK
           THEN /\ handles' = Append(handles, call.matrix)
                /\ origin' = Append(origin,
                                Created("View", h, <<row, column, rows, columns>>))
                /\ last' = Call("View", h, 0, <<row, column, rows, columns>>, OK,
                                Len(handles) + 1)
           ELSE /\ last' = Call("View", h, 0, <<row, column, rows, columns>>,
                                call.panic, 0)
                /\ UNCHANGED <<handles, origin>>
        /\ UNCHANGED <<stores, steps>>

DoGet(h, row, column) ==
    LET call == Get(handles[h], stores[handles[h].st], row, column)
    IN  /\ Running
        /\ last' = Call("Get", h, 0, <<row, column>>, call.panic, call.element)
        /\ UNCHANGED <<stores, handles, origin, steps>>

DoUpdate(h, row, column, element) ==
    LET m == handles[h]
        call == Update(m, stores[m.st], row, column, element)
    IN  /\ Running
        /\ steps < MaxSteps
        /\ stores' = [stores EXCEPT ![m.st] = call.elements]
        /\ last' = Call("Update", h, 0, <<row, column, element>>, call.panic, h)
        /\ steps' = IF call.panic = OK THEN steps + 1 ELSE steps
        /\ UNCHANGED <<handles, origin>>

TransposeStep == \E h \in Handles : DoTranspose(h)

ViewStep ==
    \E h \in Handles, row \in Positions, column \in Positions,
       rows \in Sizes, columns \in Sizes :
        DoView(h, row, column, rows, columns)

GetStep == \E h \in Handles, row \in Indices, column \in Indices : DoGet(h, row, column)

UpdateStep ==
    \E h \in Handles, row \in Indices, column \in Indices, element \in Vals :
        DoUpdate(h, row, column, element)

Next == TransposeStep \/ ViewStep \/ GetStep \/ UpdateStep

Spec == Init /\ [][Next]_vars

(***************************************************************************)
(* The state machine of the operators.  A behaviour constructs two         *)
(* matrices of one package, each with its own storage, derives views and   *)
(* calls Equal, Add, Subtract and Multiply on any two matrix values.       *)
(***************************************************************************)
InitArith ==
    \E m \in Roots(1), n \in Roots(2) :
        /\ m.matrix.kind = n.matrix.kind
        /\ stores = <<m.elements, n.elements>>
        /\ handles = <<m.matrix, n.matrix>>
        /\ origin = <<Created("New", 0, <<>>), Created("New", 0, <<>>)>>
        /\ last = NoCall
        /\ steps = 0

DoEqual(h, g) ==
    LET call == Equal(handles[h], handles[g], stores)
    IN  /\ Running
        /\ last' = Call("Equal", h, g, <<>>, call.panic, call.equal)
        /\ UNCHANGED <<stores, handles, origin, steps>>

\* The record of an Add holds the storages before the call.
DoAdd(h, g, order) ==
    LET call == Add(handles[h], handles[g], stores, order)
    IN  /\ Running
        /\ steps < MaxSteps
        /\ stores' = call.stores
        /\ last' = Call("Add", h, g, <<>>, call.panic, stores)
        /\ steps' = IF call.panic = OK THEN steps + 1 ELSE steps
        /\ UNCHANGED <<handles, origin>>

\* M.Add(N).Subtract(N): the Subtract that follows an Add on its result, with
\* the operand of the Add.
Chained(h, g) ==
    last.op = "Add" /\ last.panic = OK /\ last.recv = h /\ last.arg = g

\* The record of a Subtract holds the record of the call before it.  Beyond
\* MaxSteps the only call explored is the chained Subtract.
DoSubtract(h, g, order) ==
    LET call == Subtract(handles[h], handles[g], stores, order)
    IN  /\ Running
        /\ steps < MaxSteps \/ Chained(h, g)
        /\ stores' = call.stores
        /\ last' = Call("Subtract", h, g, <<>>, call.panic, last)
        /\ steps' = IF call.panic = OK THEN steps + 1 ELSE steps
        /\ UNCHANGED <<handles, origin>>

DoMultiply(h, g, order) ==
    LET call == Multiply(handles[h], handles[g], stores, order)
    IN  /\ Running
        /\ last' = Call("Multiply", h, g, <<>>, call.panic,
                        [matrix |-> call.matrix, elements |-> call.elements])
        /\ UNCHANGED <<stores, handles, origin, steps>>

\* The orders in which the NonZeros cursor of handle g can visit its cells.
CursorOrders(g) == NonZerosOrders(handles[g], stores[handles[g].st])

EqualStep == \E h \in Handles, g \in Handles : DoEqual(h, g)

AddStep == \E h \in Handles, g \in Handles : \E order \in CursorOrders(g) : DoAdd(h, g, order)

SubtractStep ==
    \E h \in Handles, g \in Handles : \E order \in CursorOrders(g) : DoSubtract(h, g, order)

MultiplyStep ==
    \E h \in Handles, g \in Handles : \E order \in CursorOrders(g) : DoMultiply(h, g, order)

NextArith ==
    TransposeStep \/ ViewStep \/ EqualStep \/ AddStep \/ SubtractStep \/ MultiplyStep

SpecArith == InitArith /\ [][NextArith]_vars

(***************************************************************************)
(* Properties of Get, Update, Transpose and View.                          *)
(***************************************************************************)
ElementsOf(m) == stores[m.st]

InShape(m, row, column) ==
    /\ 0 <= row /\ row < Rows(m)
    /\ 0 <= column /\ column < Columns(m)

ReadsAs(m, row, column, element) ==
    Get(m, ElementsOf(m), row, column) = [panic |-> OK, element |-> element]

\* C1: after m.Update(r, c, v) with (r, c) inside m's shape, the update has
\* succeeded and m.Get(r, c) returns v, whatever m is (root, transposed view,
\* sub-view; dense or hash) and whatever v is, 0 included.
C1_UpdateThenGet ==
    (last.op = "Update" /\ InShape(handles[last.recv], last.args[1], last.args[2]))
        => /\ last.panic = OK
           /\ ReadsAs(handles[last.recv], last.args[1], last.args[2], last.args[3])

\* An Update of 0 through a transposed sub-view has succeeded.
C1_Witness ==
    /\ last.op = "Update" /\ last.panic = OK /\ last.args[3] = 0
    /\ handles[last.recv].rewriter = REVERSE
    /\ handles[last.recv].view # handles[last.recv].base

\* C2: after v.Update(i, j, x) through v = M.View(r0, c0, h, w), M.Get(r0 + i,
\* c0 + j) returns x, also when M is transposed or is itself a view.
C2_ViewUpdateVisibleInParent ==
    (last.op = "Update" /\ last.panic = OK /\ origin[last.recv].op = "View")
        => ReadsAs(handles[origin[last.recv].from],
                   origin[last.recv].args[1] + last.args[1],
                   origin[last.recv].args[2] + last.args[2],
                   last.args[3])

\* C3: t = m.Transpose() has m's shape swapped, reads at (c, r) what m reads at
\* (r, c) in every later state (so after every Update through either), uses m's
\* storage, and m has the shape it had before the call.
C3_TransposeSharesStorage ==
    \A t \in Handles :
        origin[t].op = "Transpose" =>
            LET m == handles[origin[t].from]
            IN  /\ Shape(handles[t]) = <<Columns(m), Rows(m)>>
                /\ Shape(m) = origin[t].args
                /\ handles[t].st = m.st
                /\ \A r \in 0..(Rows(m) - 1), c \in 0..(Columns(m) - 1) :
                        Get(handles[t], ElementsOf(handles[t]), c, r)
                            = Get(m, ElementsOf(m), r, c)
                /\ (last.op = "Update" /\ last.panic = OK /\ last.recv = t)
                        => ReadsAs(m, last.args[2], last.args[1], last.args[3])

\* A non-zero Update through the transpose of a non-square matrix has succeeded.
C3_Witness ==
    /\ last.op = "Update" /\ last.panic = OK /\ last.args[3] # 0
    /\ origin[last.recv].op = "Transpose"
    /\ Rows(handles[last.recv]) # Columns(handles[last.recv])

\* C4: M.Transpose().Transpose() has M's shape, M's rewriter (the identity one
\* for a matrix that is not transposed) and reads what M reads at every index.
C4_DoubleTranspose ==
    \A tt \in Handles :
        (origin[tt].op = "Transpose" /\ origin[origin[tt].from].op = "Transpose") =>
            LET m == handles[origin[origin[tt].from].from]
            IN  /\ Shape(handles[tt]) = Shape(m)
                /\ handles[tt].rewriter = m.rewriter
                /\ handles[tt].rewriter \in {REFLECT, REVERSE}
                /\ handles[origin[tt].from].rewriter # m.rewriter
                /\ \A r \in 0..(Rows(m) - 1), c \in 0..(Columns(m) - 1) :
                        Get(handles[tt], ElementsOf(handles[tt]), r, c)
                            = Get(m, ElementsOf(m), r, c)

\* The double transpose of a non-square root holding a non-zero element exists.
C4_Witness ==
    \E tt \in Handles :
        /\ origin[tt].op = "Transpose" /\ origin[origin[tt].from].op = "Transpose"
        /\ origin[origin[origin[tt].from].from].op = "New"
        /\ Rows(handles[tt]) # Columns(handles[tt])
        /\ \E r \in 0..(Rows(handles[tt]) - 1), c \in 0..(Columns(handles[tt]) - 1) :
                Get(handles[tt], ElementsOf(handles[tt]), r, c).element # 0

\* C9: Get and Update panic with OUT_OF_RANGE exactly when the index is outside
\* the receiver's logical shape, and with nothing else; an Update that panics
\* leaves every storage as it was.
C9_OutOfRange ==
    [][(last'.op \in {"Get", "Update"}) =>
            /\ (last'.panic = OUT_OF_RANGE_PANIC)
                    <=> ~InShape(handles'[last'.recv], last'.args[1], last'.args[2])
            /\ last'.panic \in {OK, OUT_OF_RANGE_PANIC}
            /\ (last'.panic # OK) => stores' = stores]_vars

\* An Update inside the base but outside the receiving sub-view has panicked.
C9_Witness ==
    /\ last.op = "Update" /\ last.panic = OUT_OF_RANGE_PANIC
    /\ handles[last.recv].view # handles[last.recv].base
    /\ handles[last.recv].rewriter = REVERSE
    /\ last.args[1] >= 0 /\ last.args[2] >= 0
    /\ last.args[2] < handles[last.recv].base[1]
    /\ last.args[1] < handles[last.recv].base[2]

\* The storage cells a window of the receiver covers: the cells the receiver
\* would address at the window's logical indices.
WindowCells(m, row, column, rows, columns) ==
    {<<Rewrite(m.rewriter, row + i, column + j)[1] + m.offset[1],
       Rewrite(m.rewriter, row + i, column + j)[2] + m.offset[2]>> :
        i \in 0..(rows - 1), j \in 0..(columns - 1)}

BaseCells(m) == (0..(m.base[1] - 1)) \X (0..(m.base[2] - 1))

Reads(m, S) ==
    [cell \in CellSet(m) |-> Get(m, S[m.st], cell[1], cell[2]).element]

\* The last call is the Subtract of M.Add(N).Subtract(N), and both succeeded.
AddThenSubtract ==
    /\ last.op = "Subtract" /\ last.panic = OK
    /\ last.out.op = "Add" /\ last.out.panic = OK
    /\ last.out.recv = last.recv /\ last.out.arg = last.arg

\* C5 as claimed: after M.Add(N).Subtract(N), M reads at every index what it
\* read before the Add, for every N of M's shape, N = M and views of M included.
C5_AddSubtractRestores ==
    AddThenSubtract =>
        Reads(handles[last.recv], stores) = Reads(handles[last.recv], last.out.out)

\* C5 as amended: the same, for every N whose storage is not M's.
C5_AddSubtractRestoresUnshared ==
    (AddThenSubtract /\ handles[last.recv].st # handles[last.arg].st) =>
        Reads(handles[last.recv], stores) = Reads(handles[last.recv], last.out.out)

\* M.Add(N).Subtract(N) has run for a transposed M holding a non-zero element
\* and an N of another storage holding a non-zero element.
C5_Witness ==
    /\ AddThenSubtract
    /\ handles[last.recv].st # handles[last.arg].st
    /\ handles[last.recv].rewriter = REVERSE
    /\ \E cell \in CellSet(handles[last.arg]) :
            Reads(handles[last.arg], stores)[cell] # 0
    /\ \E cell \in CellSet(handles[last.recv]) :
            Reads(handles[last.recv], stores)[cell] # 0

RECURSIVE DotProduct(_, _, _, _, _, _)
DotProduct(m, n, S, i, k, j) ==
    IF j >= Columns(m) THEN 0
    ELSE Get(m, S[m.st], i, j).element * Get(n, S[n.st], j, k).element
            + DotProduct(m, n, S, i, k, j + 1)

\* [[1,0,2],[0,1,0]] times [[1,0],[0,1],[1,1]], as dense and as hash matrices.
ExampleProducts ==
    {Multiply(DenseNew(1, 2, 3), DenseNew(2, 3, 2),
              <<DenseElements(2, 3, <<1, 0, 2, 0, 1, 0>>),
                DenseElements(3, 2, <<1, 0, 0, 1, 1, 1>>)>>,
              AllCells(DenseNew(2, 3, 2))),
     Multiply(HashNew(1, 2, 3), HashNew(2, 3, 2),
              <<(0 :> 1) @@ (2 :> 2) @@ (4 :> 1), (0 :> 1) @@ (3 :> 1) @@ (4 :> 1) @@ (5 :> 1)>>,
              <<<<2, 1>>, <<0, 0>>, <<2, 0>>, <<1, 1>>>>)}

ExampleResult == [cell \in (0..1) \X (0..1) |-> <<<<3, 2>>, <<0, 1>>>>[cell[1] + 1][cell[2] + 1]]

\* C6: m.Multiply(n) with m.Columns() = n.Rows() returns a matrix of shape
\* (m.Rows(), n.Columns()) whose element (i, k) is the sum over j of
\* m.Get(i, j) * n.Get(j, k), for every order of n's NonZeros cursor, both
\* packages and transposed operands; the product of the example is [[3,2],[0,1]].
C6_MultiplyIsMatrixProduct ==
    /\ (last.op = "Multiply"
            /\ Columns(handles[last.recv]) = Rows(handles[last.arg])) =>
            LET m == handles[last.recv]
                n == handles[last.arg]
                r == [last.out.matrix EXCEPT !.st = 1]
                R == <<last.out.elements>>
            IN  /\ last.panic = OK
                /\ r.kind = m.kind
                /\ Shape(r) = <<Rows(m), Columns(n)>>
                /\ Reads(r, R) = [cell \in (0..(Rows(m) - 1)) \X (0..(Columns(n) - 1)) |->
                                    DotProduct(m, n, stores, cell[1], cell[2], 0)]
    /\ \A product \in ExampleProducts :
            /\ product.panic = OK
            /\ Shape(product.matrix) = <<2, 2>>
            /\ Reads([product.matrix EXCEPT !.st = 1], <<product.elements>>) = ExampleResult

\* A product with a transposed operand has an element summed from two non-zero terms.
C6_Witness ==
    /\ last.op = "Multiply" /\ last.panic = OK
    /\ REVERSE \in {handles[last.recv].rewriter, handles[last.arg].rewriter}
    /\ \E k \in DOMAIN last.out.elements : last.out.elements[k] >= 2

\* C7: m.Multiply(n) panics with NOT_MULTIPLIABLE exactly when m.Columns() #
\* n.Rows() (logical shapes), with no other panic; when it panics there is no
\* result and every storage and matrix value is as before the call.
C7_NotMultipliable ==
    [][(last'.op = "Multiply") =>
            /\ (last'.panic = NOT_MULTIPLIABLE_PANIC)
                    <=> (Columns(handles'[last'.recv]) # Rows(handles'[last'.arg]))
            /\ last'.panic \in {OK, NOT_MULTIPLIABLE_PANIC}
            /\ (last'.panic # OK) => last'.out.matrix = <<>>
            /\ stores' = stores /\ handles' = handles]_vars

\* A Multiply has panicked though the stored (untransposed) shapes of receiver
\* and operand could be multiplied.
C7_Witness ==
    /\ last.op = "Multiply" /\ last.panic = NOT_MULTIPLIABLE_PANIC
    /\ REVERSE \in {handles[last.recv].rewriter, handles[last.arg].rewriter}
    /\ handles[last.recv].view[2] = handles[last.arg].view[1]

\* C8: Equal, Add and Subtract panic with DIFFERENT_SIZE when the logical
\* shapes of receiver and operand differ (in rows, in columns or in both): Equal
\* returns nothing then, and Add and Subtract leave every storage as it was.
C8_DifferentSize ==
    [][(/\ last'.op \in {"Equal", "Add", "Subtract"}
        /\ Shape(handles'[last'.recv]) # Shape(handles'[last'.arg])) =>
            /\ last'.panic = DIFFERENT_SIZE_PANIC
            /\ stores' = stores]_vars

\* An Add has panicked for an operand with a non-zero element whose shape
\* differs from the receiver's in the rows only.
C8_Witness ==
    /\ last.op = "Add" /\ last.panic = DIFFERENT_SIZE_PANIC
    /\ Rows(handles[last.recv]) # Rows(handles[last.arg])
    /\ Columns(handles[last.recv]) = Columns(handles[last.arg])
    /\ \E cell \in CellSet(handles[last.arg]) :
            Reads(handles[last.arg], stores)[cell] # 0

(***************************************************************************)
(* Constructor calls.  Each returns the panic (or error) of the call or    *)
(* OK, the matrix value and its storage.                                   *)
(***************************************************************************)
MaxElements == 2    \* elements in the list given to hash.New, and to a decoder

ERROR == "error"    \* a call that returns a non-nil error

Extents == (-1)..MaxDim     \* rows and columns arguments of a constructor

Failed(panic) == [panic |-> panic, matrix |-> <<>>, elements |-> <<>>]

\* dense.New(rows, columns)(elements...)
DenseNewCall(rows, columns, elements) ==
    LET check == FirstPanic(<<ShapeShouldBePositive(rows, columns),
                              IF Len(elements) # rows * columns
                              THEN INVALID_ELEMENTS_PANIC ELSE OK>>)
    IN  IF check # OK THEN Failed(check)
        ELSE [panic |-> OK, matrix |-> DenseNew(0, rows, columns),
              elements |-> DenseElements(rows, columns, elements)]

\* dense.Zeros(rows, columns): New(rows, columns) is called before the slice
\* of zeros is made.
DenseZerosCall(rows, columns) ==
    IF ShapeShouldBePositive(rows, columns) # OK
    THEN Failed(ShapeShouldBePositive(rows, columns))
    ELSE DenseNewCall(rows, columns, [i \in 1..(rows * columns) |-> 0])

\* The matrixImpl of mutable/dense: rows, columns and elements only.
MUTABLE_DENSE == "mutable/dense"

\* rowsShouldBePositiveNumber, columnShouldBePositiveNumber of mutable/dense.
ShouldBePositiveNumber(n) == IF n > 0 THEN OK ELSE NON_POSITIVE_SIZE_PANIC

\* mutable/dense.New(rows, columns)(elements...): both checks are given rows.
MutableDenseNew(rows, columns, elements) ==
    LET check == FirstPanic(<<ShouldBePositiveNumber(rows),
                              ShouldBePositiveNumber(rows),
                              IF Len(elements) # rows * columns THEN ERROR ELSE OK>>)
    IN  IF check # OK THEN Failed(check)
        ELSE [panic |-> OK,
              matrix |-> [kind |-> MUTABLE_DENSE, st |-> 0, rows |-> rows, columns |-> columns],
              elements |-> [i \in 0..(Len(elements) - 1) |-> elements[i + 1]]]

\* hash.New, the loop over the elements: each index is validated against the
\* shape, a key already in the map panics, the value is stored as given.
RECURSIVE HashNewLoop(_, _, _, _, _)
HashNewLoop(rows, columns, elements, i, map) ==
    IF i > Len(elements) THEN [panic |-> OK, elements |-> map]
    ELSE LET element == elements[i]
             key == element.Row * columns + element.Column
             check == FirstPanic(<<IndexShouldBeInRange(rows, columns,
                                                        element.Row, element.Column),
                                   IF key \in DOMAIN map
                                   THEN INVALID_ELEMENTS_PANIC ELSE OK>>)
         IN  IF check # OK THEN [panic |-> check, elements |-> map]
             ELSE HashNewLoop(rows, columns, elements, i + 1,
                              MapStore(map, key, element.Value))

\* The loop of the second definition of hash.New: no index is validated.
RECURSIVE HashNewLoopSecond(_, _, _, _, _)
HashNewLoopSecond(rows, columns, elements, i, map) ==
    IF i > Len(elements) THEN [panic |-> OK, elements |-> map]
    ELSE LET element == elements[i]
             key == element.Row * columns + element.Column
         IN  IF key \in DOMAIN map THEN [panic |-> INVALID_ELEMENTS_PANIC, elements |-> map]
             ELSE HashNewLoopSecond(rows, columns, elements, i + 1,
                                    MapStore(map, key, element.Value))

\* hash.New(rows, columns)(elements...)
HashNewCall(rows, columns, elements) ==
    LET check == ShapeShouldBePositive(rows, columns)
        loop == HashNewLoop(rows, columns, elements, 1, HashZeros)
    IN  IF check # OK THEN Failed(check)
        ELSE IF loop.panic # OK THEN Failed(loop.panic)
        ELSE [panic |-> OK, matrix |-> HashNew(0, rows, columns), elements |-> loop.elements]

\* hash.New(rows, columns)(elements...), the second definition.
HashNewCallSecond(rows, columns, elements) ==
    LET check == ShapeShouldBePositive(rows, columns)
        loop == HashNewLoopSecond(rows, columns, elements, 1, HashZeros)
    IN  IF check # OK THEN Failed(check)
        ELSE IF loop.panic # OK THEN Failed(loop.panic)
        ELSE [panic |-> OK, matrix |-> HashNew(0, rows, columns), elements |-> loop.elements]

\* hash.Zeros(rows, columns)
HashZerosCall(rows, columns) == HashNewCall(rows, columns, <<>>)

(***************************************************************************)
(* The state machine of construction.  A behaviour starts with no matrix   *)
(* and makes one call of a constructor.                                    *)
(***************************************************************************)
InitBuild ==
    /\ stores = <<>>
    /\ handles = <<>>
    /\ origin = <<>>
    /\ last = NoCall
    /\ steps = 0

\* The element lists given to the dense constructors.
DenseLists == UNION {[1..n -> Vals] : n \in 0..(MaxDim * MaxDim)}

\* The element lists given to hash.New.
HashElements == [Row : Indices, Column : Indices, Value : Vals]

HashLists == UNION {[1..n -> HashElements] : n \in 0..MaxElements}

\* No call has been made yet.
Unbuilt == last = NoCall /\ handles = <<>>

\* The call is recorded; the matrix of a call that returns one is kept.
Construct(op, rows, columns, elements, call) ==
    /\ last' = Call(op, 0, 0, <<rows, columns, elements>>, call.panic,
                    IF call.panic = OK THEN 1 ELSE 0)
    /\ IF call.panic = OK
       THEN /\ handles' = <<[call.matrix EXCEPT !.st = 1]>>
            /\ stores' = <<call.elements>>
            /\ origin' = <<Created(op, 0, <<rows, columns, elements>>)>>
       ELSE UNCHANGED <<handles, stores, origin>>
    /\ UNCHANGED steps

DenseNewStep ==
    /\ Unbuilt
    /\ \E rows \in Extents, columns \in Extents, elements \in DenseLists :
        Construct("dense.New", rows, columns, elements,
                  DenseNewCall(rows, columns, elements))

DenseZerosStep ==
    /\ Unbuilt
    /\ \E rows \in Extents, columns \in Extents :
        Construct("dense.Zeros", rows, columns, <<>>, DenseZerosCall(rows, columns))

MutableDenseNewStep ==
    /\ Unbuilt
    /\ \E rows \in Extents, columns \in Extents, elements \in DenseLists :
        Construct("mutable/dense.New", rows, columns, elements,
                  MutableDenseNew(rows, columns, elements))

HashNewStep ==
    /\ Unbuilt
    /\ \E rows \in Extents, columns \in Extents, elements \in HashLists :
        Construct("hash.New", rows, columns, elements,
                  HashNewCall(rows, columns, elements))

HashNewSecondStep ==
    /\ Unbuilt
    /\ \E rows \in Extents, columns \in Extents, elements \in HashLists :
        Construct("hash.New (second)", rows, columns, elements,
                  HashNewCallSecond(rows, columns, elements))

HashZerosStep ==
    /\ Unbuilt
    /\ \E rows \in Extents, columns \in Extents :
        Construct("hash.Zeros", rows, columns, <<>>, HashZerosCall(rows, columns))

Constructors ==
    {"dense.New", "dense.Zeros", "mutable/dense.New", "hash.New", "hash.New (second)",
     "hash.Zeros"}

(***************************************************************************)
(* Properties of the constructors.                                         *)
(***************************************************************************)
\* C11: every constructor panics with NON_POSITIVE_SIZE when rows <= 0 or
\* columns <= 0, and never when both are positive.
C11_NonPositiveSize ==
    (last.op \in Constructors) =>
        ((last.panic = NON_POSITIVE_SIZE_PANIC)
            <=> (last.args[1] <= 0 \/ last.args[2] <= 0))

\* The keys of the map of a hash matrix that are cells of its base.
BaseKeys(m) == 0..(m.base[1] * m.base[2] - 1)

\* C12: the map of a hash matrix holds no key whose value is 0: its key set is
\* the set of the cells of the base that read as non-zero.
C12_NoZeroKeys ==
    \A h \in Handles :
        handles[h].kind = HASH =>
            /\ \A key \in DOMAIN ElementsOf(handles[h]) : ElementsOf(handles[h])[key] # 0
            /\ DOMAIN ElementsOf(handles[h])
                    = {key \in BaseKeys(handles[h]) :
                            /\ key \in DOMAIN ElementsOf(handles[h])
                            /\ ElementsOf(handles[h])[key] # 0}

\* Two elements of the list have the same (row, column).
HasDuplicates(elements) ==
    \E i, j \in 1..Len(elements) :
        /\ i < j
        /\ elements[i].Row = elements[j].Row
        /\ elements[i].Column = elements[j].Column

\* An element of the list lies outside the shape.
HasOutOfShape(rows, columns, elements) ==
    \E i \in 1..Len(elements) :
        ~(/\ 0 <= elements[i].Row /\ elements[i].Row < rows
          /\ 0 <= elements[i].Column /\ elements[i].Column < columns)

\* C16: hash.New(rows, columns)(elements...) with a positive shape panics with
\* INVALID_ELEMENTS when two elements have the same (row, column) and when an
\* element lies outside the shape; for distinct elements inside the shape it
\* returns a matrix that reads e.Value at (e.Row, e.Column) for each element e.
C16_InvalidElements ==
    (/\ last.op \in {"hash.New", "hash.New (second)"}
     /\ last.args[1] > 0 /\ last.args[2] > 0) =>
        LET elements == last.args[3]
            invalid == \/ HasDuplicates(elements)
                       \/ HasOutOfShape(last.args[1], last.args[2], elements)
        IN  /\ invalid => last.panic = INVALID_ELEMENTS_PANIC
            /\ ~invalid =>
                    /\ last.panic = OK
                    /\ \A i \in 1..Len(elements) :
                            ReadsAs(handles[last.out], elements[i].Row,
                                    elements[i].Column, elements[i].Value)

(***************************************************************************)
(* Serialization.  The hash matrix is written as a JSON object and read by *)
(* UnmarshalJSON; the dense matrix is written field by field and read by   *)
(* Deserialize.  A decoder returns OK, an error value or panics.  The      *)
(* elements of a decoded storage are integers counted in units of          *)
(* 2^unit: unit 0 is the unit of every other storage of the model.         *)
(***************************************************************************)
AlreadyInitializedError == "AlreadyInitializedError"
IncompatibleVersionError == "IncompatibleVersionError"
UnknownRewriterError == "UnknownRewriterError"
SerialError == "SerialError"

Errors ==
    {ERROR, AlreadyInitializedError, IncompatibleVersionError, UnknownRewriterError,
     SerialError}

\* The version of the JSON form of the hash matrix, and the versions accepted.
version == 0
minVersion == 0
maxVersion == 0

\* The version of the serial form of the dense matrix.
denseVersion == 0

\* rewriters.Get, rewriters.Deserialize: the rewriter of a type tag.
RewritersGet(tag) == IF tag \in {REFLECT, REVERSE} THEN OK ELSE UnknownRewriterError

Decoded(panic, matrix, elements, unit) ==
    [panic |-> panic, matrix |-> matrix, elements |-> elements, unit |-> unit]

Undecoded(panic) == Decoded(panic, <<>>, <<>>, 0)

\* hash.Matrix.Base
HashBase(m) == [m EXCEPT !.view = m.base, !.offset = <<0, 0>>]

\* hash.Matrix.MarshalJSON: the elements are those the NonZeros cursor of
\* m.Base() yields, in its order, with their coordinates rewritten.
HashMarshalJSON(m, elements, order) ==
    [Version |-> version, Base |-> m.base, View |-> m.view, Offset |-> m.offset,
     Elements |-> [i \in 1..Len(order) |->
                    [Row |-> Rewrite(m.rewriter, order[i][1], order[i][2])[1],
                     Column |-> Rewrite(m.rewriter, order[i][1], order[i][2])[2],
                     Value |-> Get(HashBase(m), elements, order[i][1], order[i][2]).element]],
     Rewriter |-> m.rewriter]

\* hash.Matrix.UnmarshalJSON, the loop over the elements.
RECURSIVE HashUnmarshalLoop(_, _, _, _)
HashUnmarshalLoop(columns, elements, i, map) ==
    IF i > Len(elements) THEN [panic |-> OK, elements |-> map]
    ELSE LET key == elements[i].Row * columns + elements[i].Column
         IN  IF key \in DOMAIN map THEN [panic |-> INVALID_ELEMENTS_PANIC, elements |-> map]
             ELSE HashUnmarshalLoop(columns, elements, i + 1,
                                    MapStore(map, key, elements[i].Value))

\* hash.Matrix.UnmarshalJSON on a matrix value with the given initialized flag.
HashUnmarshalJSON(initialized, jsonObject) ==
    LET loop == HashUnmarshalLoop(jsonObject.Base[2], jsonObject.Elements, 1, HashZeros)
        check == FirstPanic(<<
            IF initialized THEN AlreadyInitializedError ELSE OK,
            IF jsonObject.Version < minVersion \/ maxVersion < jsonObject.Version
            THEN IncompatibleVersionError ELSE OK,
            loop.panic,
            RewritersGet(jsonObject.Rewriter),
            ShapeShouldBePositive(jsonObject.Base[1], jsonObject.Base[2]),
            IndexShouldBeInRange(jsonObject.Base[1], jsonObject.Base[2],
                                 jsonObject.Offset[1], jsonObject.Offset[2]),
            ViewShouldBeInBase(jsonObject.Base, jsonObject.View, jsonObject.Offset)>>)
    IN  IF check # OK THEN Undecoded(check)
        ELSE Decoded(OK,
                     [kind |-> HASH, st |-> 0, initialized |-> TRUE,
                      base |-> jsonObject.Base, view |-> jsonObject.View,
                      offset |-> jsonObject.Offset, rewriter |-> jsonObject.Rewriter],
                     loop.elements, 0)

\* float64 to int64, as Serialize converts an element: the fraction is dropped.
\* The elements of the model have none.
Int64(element) == element

\* The float64 whose bits are those of the int64 n, 0 <= n < 2^52: n * 2^-1074.
SubnormalUnit == 0 - 1074

\* denseMatrix.Serialize: the fields written, the elements as int64.
DenseSerialize(m, elements) ==
    [Version |-> denseVersion,
     Base |-> m.base, View |-> m.view, Offset |-> m.offset,
     Rows |-> m.rows, Columns |-> m.columns,
     Elements |-> [i \in 1..(m.rows * m.columns) |-> Int64(elements[i - 1])],
     Rewriter |-> m.rewriter]

\* dense.Deserialize: base, view and offset are read and dropped, the elements
\* are read as float64, and the matrix value is built from rows, columns,
\* elements and rewriter only.
DenseDeserialize(data) ==
    LET check == FirstPanic(<<
            IF data.Version # denseVersion THEN SerialError ELSE OK,
            RewritersGet(data.Rewriter),
            IF Len(data.Elements) # data.Rows * data.Columns
            THEN INVALID_ELEMENTS_PANIC ELSE OK>>)
    IN  IF check # OK THEN Undecoded(check)
        ELSE Decoded(OK,
                     [kind |-> DENSE, st |-> 0, base |-> <<0, 0>>, view |-> <<0, 0>>,
                      offset |-> <<0, 0>>, rows |-> data.Rows, columns |-> data.Columns,
                      rewriter |-> data.Rewriter],
                     [i \in 0..(Len(data.Elements) - 1) |-> data.Elements[i + 1]],
                     SubnormalUnit)

(***************************************************************************)
(* Decoding in the state machine of construction: a behaviour may decode   *)
(* one input instead of calling a constructor.                             *)
(***************************************************************************)
Tags == {REFLECT, REVERSE, "unknown"}

Versions == {version, version + 1}

DecodeShapes == Sizes \X Sizes

DecodeOffsets == Positions \X Positions

\* The element lists of a JSON input: coordinates inside the largest base.
JsonElements == [Row : Positions, Column : Positions, Value : {MaxVal}]

JsonLists == UNION {[1..n -> JsonElements] : n \in 0..MaxElements}

JsonObjects ==
    [Version : Versions, Base : DecodeShapes, View : DecodeShapes,
     Offset : DecodeOffsets, Elements : JsonLists, Rewriter : Tags]

SerialData ==
    [Version : Versions, Base : {<<1, 1>>}, View : {<<1, 1>>}, Offset : {<<0, 0>>},
     Rows : Sizes, Columns : Sizes, Elements : DenseLists, Rewriter : Tags]

\* The call is recorded; the matrix of a successful decode is kept, with the
\* unit of its elements.
Decode(op, input, call) ==
    /\ last' = Call(op, 0, 0, <<input>>, call.panic, IF call.panic = OK THEN 1 ELSE 0)
    /\ IF call.panic = OK
       THEN /\ handles' = <<[call.matrix EXCEPT !.st = 1]>>
            /\ stores' = <<call.elements>>
            /\ origin' = <<Created(op, 0, <<call.unit>>)>>
       ELSE UNCHANGED <<handles, stores, origin>>
    /\ UNCHANGED steps

HashUnmarshalStep ==
    /\ Unbuilt
    /\ \E initialized \in BOOLEAN, jsonObject \in JsonObjects :
        Decode("hash.UnmarshalJSON", [initialized |-> initialized, json |-> jsonObject],
               HashUnmarshalJSON(initialized, jsonObject))

DenseDeserializeStep ==
    /\ Unbuilt
    /\ \E data \in SerialData :
        Decode("dense.Deserialize", data, DenseDeserialize(data))

Decoders == {"hash.UnmarshalJSON", "dense.Deserialize"}

NextBuild ==
    \/ DenseNewStep
    \/ DenseZerosStep
    \/ MutableDenseNewStep
    \/ HashNewStep
    \/ HashNewSecondStep
    \/ HashZerosStep
    \/ HashUnmarshalStep
    \/ DenseDeserializeStep

SpecBuild == InitBuild /\ [][NextBuild]_vars

\* C19: a decoder returns a matrix or an error value, and never panics.
C19_DecodeNeverPanics ==
    (last.op \in Decoders) => last.panic \in {OK} \cup Errors

\* C20: every matrix value has a positive base shape, a positive view shape,
\* a non-negative offset and a view inside its base, and the matrix values of
\* one storage have one base shape.
WellFormed(m) ==
    /\ m.base[1] > 0 /\ m.base[2] > 0
    /\ m.view[1] > 0 /\ m.view[2] > 0
    /\ m.offset[1] >= 0 /\ m.offset[2] >= 0
    /\ m.offset[1] + m.view[1] <= m.base[1]
    /\ m.offset[2] + m.view[2] <= m.base[2]

C20_ViewInsideBase ==
    /\ \A h \in Handles : handles[h].kind \in Kinds => WellFormed(handles[h])
    /\ \A h, g \in Handles :
            (handles[h].kind \in Kinds /\ handles[h].st = handles[g].st)
                => handles[h].base = handles[g].base

(***************************************************************************)
(* Scalar (dense) and Scale (hash).                                        *)
(***************************************************************************)
DenseScalar(m, elements, s) ==
    [index \in DOMAIN elements |-> elements[index] * s]

\* Mutant of HashScale: a product of 0 is stored.
HashScaleKeepsZeroed(m, elements, s) ==
    [index \in DOMAIN elements |-> elements[index] * s]

HashScale(m, elements, s) ==
    [index \in {k \in DOMAIN elements : elements[k] * s # 0} |-> elements[index] * s]

Scalar(m, elements, s) ==
    IF m.kind = DENSE THEN DenseScalar(m, elements, s) ELSE HashScale(m, elements, s)

(***************************************************************************)
(* The walk of a cursor: the triples (element, row, column) it yields      *)
(* until HasNext returns false, over a storage no call changes meanwhile.  *)
(***************************************************************************)
Triple(m, elements, cell) ==
    [element |-> Get(m, elements, cell[1], cell[2]).element,
     row |-> cell[1], column |-> cell[2]]

Walk(triples) == [nil |-> FALSE, triples |-> triples]

\* A nil types.Cursor: HasNext and Get on it dereference nil.
NilCursor == [nil |-> TRUE, triples |-> <<>>]

\* m.All()
AllCursor(m, elements) ==
    Walk([i \in 1..Len(AllCells(m)) |-> Triple(m, elements, AllCells(m)[i])])

\* m.NonZeros(), visiting in the given order.
NonZerosCursor(m, elements, order) ==
    LET Yielded(cell) == cell \in NonZeroCells(m, elements)
        cells == SelectSeq(order, Yielded)
    IN  Walk([i \in 1..Len(cells) |-> Triple(m, elements, cells[i])])

\* The cells (i, i) of m, by ascending i.
DiagonalCells(m) ==
    [i \in 1..(IF Rows(m) < Columns(m) THEN Rows(m) ELSE Columns(m)) |-> <<i - 1, i - 1>>]

\* m.Diagonal(): the hash matrix returns nil.
DiagonalCursor(m, elements) ==
    IF m.kind = HASH THEN NilCursor
    ELSE Walk([i \in 1..Len(DiagonalCells(m)) |-> Triple(m, elements, DiagonalCells(m)[i])])

(***************************************************************************)
(* The state machine of the cursors, of Scalar and of serialization.  A    *)
(* behaviour constructs one matrix, derives views of it, calls Update or   *)
(* Scalar through any of them, and then walks a cursor of one of them or   *)
(* serializes one of them and decodes the output.                          *)
(***************************************************************************)
Scalars == (-1)..(MaxVal + 1)

DoScalar(h, s) ==
    LET m == handles[h]
    IN  /\ Running
        /\ steps < MaxSteps
        /\ stores' = [stores EXCEPT ![m.st] = Scalar(m, stores[m.st], s)]
        /\ last' = Call("Scalar", h, 0, <<s>>, OK, h)
        /\ steps' = steps + 1
        /\ UNCHANGED <<handles, origin>>

DoAll(h) ==
    /\ Running
    /\ last' = Call("All", h, 0, <<>>, OK, AllCursor(handles[h], ElementsOf(handles[h])))
    /\ UNCHANGED <<stores, handles, origin, steps>>

DoNonZeros(h, order) ==
    /\ Running
    /\ last' = Call("NonZeros", h, 0, <<>>, OK,
                    NonZerosCursor(handles[h], ElementsOf(handles[h]), order))
    /\ UNCHANGED <<stores, handles, origin, steps>>

DoDiagonal(h) ==
    /\ Running
    /\ last' = Call("Diagonal", h, 0, <<>>, OK,
                    DiagonalCursor(handles[h], ElementsOf(handles[h])))
    /\ UNCHANGED <<stores, handles, origin, steps>>

\* Serialize, then Deserialize of what was written.
RoundTrip(m, elements, order) ==
    IF m.kind = DENSE
    THEN DenseDeserialize(DenseSerialize(m, elements))
    ELSE HashUnmarshalJSON(FALSE, HashMarshalJSON(m, elements, order))

\* The orders in which MarshalJSON can be given the elements of handle h.
MarshalOrders(h) ==
    IF handles[h].kind = DENSE THEN {<<>>}
    ELSE NonZerosOrders(HashBase(handles[h]), ElementsOf(handles[h]))

DoSerialize(h, order) ==
    LET call == RoundTrip(handles[h], ElementsOf(handles[h]), order)
    IN  /\ Running
        /\ last' = Call("Serialize", h, 0, <<>>, call.panic,
                        [matrix |-> call.matrix, elements |-> call.elements,
                         unit |-> call.unit])
        /\ UNCHANGED <<stores, handles, origin, steps>>

ScalarStep == \E h \in Handles, s \in Scalars : DoScalar(h, s)

AllStep == \E h \in Handles : DoAll(h)

NonZerosStep == \E h \in Handles : \E order \in CursorOrders(h) : DoNonZeros(h, order)

DiagonalStep == \E h \in Handles : DoDiagonal(h)

SerializeStep == \E h \in Handles : \E order \in MarshalOrders(h) : DoSerialize(h, order)

NextCursor ==
    \/ TransposeStep
    \/ ViewStep
    \/ UpdateStep
    \/ ScalarStep
    \/ AllStep
    \/ NonZerosStep
    \/ DiagonalStep
    \/ SerializeStep

SpecCursor == Init /\ [][NextCursor]_vars

(***************************************************************************)
(* Properties of the cursors, of Scalar and of serialization.              *)
(***************************************************************************)
\* The cells of the triples of a walk.
Visited(walk) == {<<walk.triples[i].row, walk.triples[i].column>> : i \in DOMAIN walk.triples}

\* No cell is yielded twice.
NoDuplicates(walk) ==
    \A i, j \in DOMAIN walk.triples :
        (/\ walk.triples[i].row = walk.triples[j].row
         /\ walk.triples[i].column = walk.triples[j].column) => i = j

\* Each triple holds what its matrix reads at the triple's cell.
ReadsItsCells(m, walk) ==
    \A i \in DOMAIN walk.triples :
        ReadsAs(m, walk.triples[i].row, walk.triples[i].column, walk.triples[i].element)

C15_DiagonalCursor ==
    (last.op = "Diagonal") =>
        LET m == handles[last.recv]
        IN  /\ ~last.out.nil
            /\ Visited(last.out)
                    = {cell \in CellSet(m) : cell[1] = cell[2]}
            /\ NoDuplicates(last.out)
            /\ ReadsItsCells(m, last.out)

SameValue(a, unitA, b, unitB) ==
    \/ a = 0 /\ b = 0
    \/ a = b /\ unitA = unitB

\* C18: decoding the output of Serialize(m) succeeds and gives a matrix with
\* m's base shape, view shape, offset and rewriter that reads at every index
\* of m's shape what m reads.
C18_RoundTrip ==
    (last.op = "Serialize") =>
        LET m == handles[last.recv]
            d == [last.out.matrix EXCEPT !.st = 1]
        IN  /\ last.panic = OK
            /\ d.kind = m.kind
            /\ d.base = m.base /\ d.view = m.view /\ d.offset = m.offset
            /\ d.rewriter = m.rewriter
            /\ \A cell \in CellSet(m) :
                    /\ Get(d, last.out.elements, cell[1], cell[2]).panic = OK
                    /\ SameValue(Get(d, last.out.elements, cell[1], cell[2]).element,
                                 last.out.unit,
                                 Get(m, ElementsOf(m), cell[1], cell[2]).element, 0)

(***************************************************************************)
(* Row and Column of the hash matrix.                                      *)
(***************************************************************************)
\* hash.Matrix.Row: the columns argument is the stored view's columns.
HashRow(m, row) == HashView(m, row, 0, 1, m.view[2])

\* hash.Matrix.Column: the rows argument is the stored view's rows.
HashColumn(m, column) == HashView(m, 0, column, m.view[1], 1)

(***************************************************************************)
(* The state machine of the views.  A behaviour constructs one matrix and  *)
(* derives matrix values from it by Transpose, View, Row and Column.       *)
(***************************************************************************)
\* The call is recorded; the matrix value of a call that returns one is kept.
Derive(op, h, args, call) ==
    /\ Deriving
    /\ handles[h].kind = HASH
    /\ Len(handles) < MaxHandles
    /\ IF call.panic = OK
       THEN /\ handles' = Append(handles, call.matrix)
            /\ origin' = Append(origin, Created(op, h, args))
            /\ last' = Call(op, h, 0, args, OK, Len(handles) + 1)
       ELSE /\ last' = Call(op, h, 0, args, call.panic, 0)
            /\ UNCHANGED <<handles, origin>>
    /\ UNCHANGED <<stores, steps>>

DoRow(h, row) == Derive("Row", h, <<row>>, HashRow(handles[h], row))

DoColumn(h, column) == Derive("Column", h, <<column>>, HashColumn(handles[h], column))

RowStep == \E h \in Handles, row \in Positions : DoRow(h, row)

ColumnStep == \E h \in Handles, column \in Positions : DoColumn(h, column)

NextView == TransposeStep \/ ViewStep \/ RowStep \/ ColumnStep

SpecView == Init /\ [][NextView]_vars

(***************************************************************************)
(* Properties of Row, Column and of views of views.                        *)
(***************************************************************************)
\* C21: for a hash matrix m of logical shape (R, C), transposed or not,
\* m.Row(i) with 0 <= i < R returns a view of shape (1, C) that reads at (0, c)
\* what m reads at (i, c), and m.Column(j) with 0 <= j < C returns a view of
\* shape (R, 1) that reads at (r, 0) what m reads at (r, j).
C21_RowAndColumn ==
    LET m == handles[last.recv]
    IN  /\ (last.op = "Row" /\ last.args[1] < Rows(m)) =>
                /\ last.panic = OK
                /\ Shape(handles[last.out]) = <<1, Columns(m)>>
                /\ \A c \in 0..(Columns(m) - 1) :
                        Get(handles[last.out], ElementsOf(m), 0, c)
                            = Get(m, ElementsOf(m), last.args[1], c)
        /\ (last.op = "Column" /\ last.args[1] < Columns(m)) =>
                /\ last.panic = OK
                /\ Shape(handles[last.out]) = <<Rows(m), 1>>
                /\ \A r \in 0..(Rows(m) - 1) :
                        Get(handles[last.out], ElementsOf(m), r, 0)
                            = Get(m, ElementsOf(m), r, last.args[1])

\* The keys of the storage a hash matrix value addresses at the indices of its
\* logical shape.
Addressable(m) == {HashIndex(m, cell[1], cell[2]) : cell \in CellSet(m)}

\* C25: a view (a View, Row or Column) that is returned addresses only
\* storage cells that the matrix value it was derived from addresses.
C25_ViewInsideParent ==
    \A w \in Handles :
        origin[w].op \in {"View", "Row", "Column"} =>
            Addressable(handles[w]) \subseteq Addressable(handles[origin[w].from])

(***************************************************************************)
(* Max and Min of the dense matrix, and the predicates of package matrix.  *)
(***************************************************************************)
\* denseMatrix.convertToRowColumn: the index is divided by Columns().
convertToRowColumn(m, index) ==
    <<index \div Columns(m), index - (index \div Columns(m)) * Columns(m)>>

\* The loop of Max (sign 1) and of Min (sign -1) over the slice, from index i.
\* found is false while the extreme is still the infinity it starts as.
RECURSIVE ExtremeLoop(_, _, _, _, _, _)
ExtremeLoop(elements, i, found, extreme, index, sign) ==
    IF i \notin DOMAIN elements THEN [element |-> extreme, index |-> index]
    ELSE IF found /\ sign * extreme >= sign * elements[i]
         THEN ExtremeLoop(elements, i + 1, found, extreme, index, sign)
         ELSE ExtremeLoop(elements, i + 1, TRUE, elements[i], i, sign)

\* denseMatrix.Max; the Max of the hash matrix returns (0, 0, 0).
Max(m, elements) ==
    IF m.kind = HASH THEN [element |-> 0, row |-> 0, column |-> 0]
    ELSE LET found == ExtremeLoop(elements, 0, FALSE, 0, 0, 1)
         IN  [element |-> found.element,
              row |-> convertToRowColumn(m, found.index)[1],
              column |-> convertToRowColumn(m, found.index)[2]]

\* denseMatrix.Min; the Min of the hash matrix returns (0, 0, 0).
Min(m, elements) ==
    IF m.kind = HASH THEN [element |-> 0, row |-> 0, column |-> 0]
    ELSE LET found == ExtremeLoop(elements, 0, FALSE, 0, 0, -1)
         IN  [element |-> found.element,
              row |-> convertToRowColumn(m, found.index)[1],
              column |-> convertToRowColumn(m, found.index)[2]]

\* matrix.IsSquare
IsSquare(m) == Rows(m) = Columns(m)

\* matrix.IsDiagonal: the match given to IsSpecialDiagonal.
DiagonalMatch(element, row, column) == row # column /\ element # 0

\* matrix.IsDiagonal, by IsSpecialDiagonal: every element of the All cursor
\* has to match.
IsDiagonal(m, elements) ==
    /\ IsSquare(m)
    /\ \A i \in DOMAIN AllCursor(m, elements).triples :
            DiagonalMatch(AllCursor(m, elements).triples[i].element,
                          AllCursor(m, elements).triples[i].row,
                          AllCursor(m, elements).triples[i].column)

(***************************************************************************)
(* The state machine of Max, Min and IsDiagonal.  A behaviour constructs   *)
(* one matrix, derives views of it, calls Update through any of them and   *)
(* then calls Max, Min or IsDiagonal on one of them.                       *)
(***************************************************************************)
DoMax(h) ==
    /\ Running
    /\ last' = Call("Max", h, 0, <<>>, OK, Max(handles[h], ElementsOf(handles[h])))
    /\ UNCHANGED <<stores, handles, origin, steps>>

DoMin(h) ==
    /\ Running
    /\ last' = Call("Min", h, 0, <<>>, OK, Min(handles[h], ElementsOf(handles[h])))
    /\ UNCHANGED <<stores, handles, origin, steps>>

DoIsDiagonal(h) ==
    /\ Running
    /\ last' = Call("IsDiagonal", h, 0, <<>>, OK,
                    IsDiagonal(handles[h], ElementsOf(handles[h])))
    /\ UNCHANGED <<stores, handles, origin, steps>>

MaxStep == \E h \in Handles : DoMax(h)

MinStep == \E h \in Handles : DoMin(h)

IsDiagonalStep == \E h \in Handles : DoIsDiagonal(h)

NextQuery ==
    TransposeStep \/ ViewStep \/ UpdateStep \/ MaxStep \/ MinStep \/ IsDiagonalStep

SpecQuery == Init /\ [][NextQuery]_vars

(***************************************************************************)
(* Properties of Max, Min and IsDiagonal.                                  *)
(***************************************************************************)
\* C22: Max() of a dense matrix m, transposed or not, returns (e, row, col)
\* with (row, col) inside m's logical shape, m.Get(row, col) = e and e >= every
\* element m reads; Min() likewise with <=.
C22_MaxMin ==
    (last.op \in {"Max", "Min"} /\ handles[last.recv].kind = DENSE) =>
        LET m == handles[last.recv]
        IN  /\ InShape(m, last.out.row, last.out.column)
            /\ ReadsAs(m, last.out.row, last.out.column, last.out.element)
            /\ \A cell \in CellSet(m) :
                    IF last.op = "Max"
                    THEN last.out.element >= Reads(m, stores)[cell]
                    ELSE last.out.element <= Reads(m, stores)[cell]

\* C23: IsDiagonal(m) is true exactly when m is square and reads 0 at every
\* (row, column) with row # column.
C23_IsDiagonal ==
    (last.op = "IsDiagonal") =>
        LET m == handles[last.recv]
        IN  last.out <=> (/\ Rows(m) = Columns(m)
                          /\ \A cell \in CellSet(m) :
                                cell[1] # cell[2] => Reads(m, stores)[cell] = 0)

(***************************************************************************)
(* Properties of Add and Subtract on matrices that share their storage.    *)
(***************************************************************************)
\* C24: when M.Add(N) or M.Subtract(N) is called with N backed by the storage
\* of M (N is M, a view of M or the transpose of M), M reads afterwards, at
\* every cell, the value it read before the call plus (minus) the value N
\* read before the call.
C24_SharedStorage ==
    [][(/\ last'.op \in {"Add", "Subtract"}
        /\ last' # last
        /\ last'.panic = OK
        /\ handles[last'.recv].st = handles[last'.arg].st)
       => LET m == handles[last'.recv]
              n == handles[last'.arg]
              sign == IF last'.op = "Add" THEN 1 ELSE -1
          IN  \A cell \in CellSet(m) :
                  Reads(m, stores')[cell]
                      = Reads(m, stores)[cell] + sign * Reads(n, stores)[cell]]_vars

(***************************************************************************)
(* Properties of Scale on a sub-view of the hash matrix.                   *)
(***************************************************************************)
\* C26: for a hash matrix m and a view v = m.View(...) that is strictly
\* smaller than m, v.Scale(s) leaves every cell of m outside the window of v
\* with the value it had before the call.
C26_ScaleInsideView ==
    [][(/\ last'.op = "Scalar"
        /\ last' # last
        /\ handles[last'.recv].kind = HASH
        /\ origin[last'.recv].op = "View"
        /\ Addressable(handles[last'.recv])
               # Addressable(handles[origin[last'.recv].from]))
       => LET v == handles[last'.recv]
              m == handles[origin[last'.recv].from]
          IN  \A cell \in CellSet(m) :
                  HashIndex(m, cell[1], cell[2]) \notin Addressable(v)
                      => Reads(m, stores')[cell] = Reads(m, stores)[cell]]_vars

====
